---- MODULE Spec2Model ----
(***************************************************************************)
(* Model of pi-sensor-reader (src/main.rs): a DS18B20 temperature bridge   *)
(* that enumerates 1-wire sensors once, then forever sleeps, reads every   *)
(* sensor's w1_slave file, and publishes the readings to an MQTT broker.   *)
(*                                                                         *)
(* Text is modelled as a sequence of one-character strings so that         *)
(* lines(), ends_with(), rsplit() and i32::from_str are computed the way   *)
(* the standard library computes them.                                     *)
(***************************************************************************)
EXTENDS Integers, Sequences, FiniteSets, TLC

VARIABLES pc, exit, boot, environ, config, wait_time, devices, sensors, idx,
          readings, lastFile, message, calls, prev, published

vars == <<pc, exit, boot, environ, config, wait_time, devices, sensors, idx,
          readings, lastFile, message, calls, prev, published>>

(***************************************************************************)
(* Bounds of the model                                                     *)
(***************************************************************************)
\* largest power of ten by which a temperature mantissa is scaled
MaxShift == 3
\* largest number of entries in an enumerated device directory
MaxEntries == 3

(***************************************************************************)
(* Text helpers                                                            *)
(***************************************************************************)
Min(S) == CHOOSE x \in S : \A y \in S : x <= y
Max(S) == CHOOSE x \in S : \A y \in S : x >= y

I32Max == 2147483647
I32Min == (-2147483647) - 1

\* a byte that is not part of any valid UTF-8 sequence
BadByte == "<ff>"

Digits == <<"0", "1", "2", "3", "4", "5", "6", "7", "8", "9">>
IsDigit(c) == \E d \in 1..10 : Digits[d] = c
DigitVal(c) == (CHOOSE d \in 1..10 : Digits[d] = c) - 1

\* String::from_utf8(contents).unwrap_or("".into())
from_utf8_or_empty(bytes) ==
    IF \E k \in 1..Len(bytes) : bytes[k] = BadByte THEN <<>> ELSE bytes

\* str::ends_with
ends_with(s, suffix) ==
    /\ Len(suffix) <= Len(s)
    /\ SubSeq(s, Len(s) - Len(suffix) + 1, Len(s)) = suffix

\* str::contains in the place of str::starts_with
contains(s, prefix) ==
    \E k \in 1..(Len(s) - Len(prefix) + 1) :
        SubSeq(s, k, k + Len(prefix) - 1) = prefix

\* str::starts_with
starts_with(s, prefix) ==
    /\ Len(prefix) <= Len(s)
    /\ SubSeq(s, 1, Len(prefix)) = prefix

\* str::split_inclusive('\n'): pieces keep their terminating newline
RECURSIVE split_inclusive(_)
split_inclusive(s) ==
    IF s = <<>> THEN <<>>
    ELSE LET nl == {k \in 1..Len(s) : s[k] = "\n"} IN
         IF nl = {} THEN <<s>>
         ELSE <<SubSeq(s, 1, Min(nl))>>
                  \o split_inclusive(SubSeq(s, Min(nl) + 1, Len(s)))

\* the closure of str::lines: strip one "\n", and only then one "\r"
strip_line_ending(l) ==
    IF ends_with(l, <<"\n">>)
    THEN LET a == SubSeq(l, 1, Len(l) - 1) IN
         IF ends_with(a, <<"\r">>) THEN SubSeq(a, 1, Len(a) - 1) ELSE a
    ELSE l

\* str::lines
lines(s) ==
    LET parts == split_inclusive(s) IN
    [k \in 1..Len(parts) |-> strip_line_ending(parts[k])]

\* line.rsplit('=').next(): the text after the last '=', or the whole
\* text when it contains no '=' (rsplit always yields at least one piece)
rsplit_next(s) ==
    LET eq == {k \in 1..Len(s) : s[k] = "="} IN
    IF eq = {} THEN s ELSE SubSeq(s, Max(eq) + 1, Len(s))

\* the digit loop of i32::from_str with checked_mul and checked_add
\* (checked_sub for a negative number); FALSE stands for Err(_)
RECURSIVE i32_digits(_, _, _)
i32_digits(ds, acc, positive) ==
    IF ds = <<>> THEN [ok |-> TRUE, val |-> acc]
    ELSE IF ~IsDigit(Head(ds)) THEN [ok |-> FALSE, val |-> 0]
    ELSE LET d == DigitVal(Head(ds)) IN
         IF positive
         THEN IF acc > (I32Max - d) \div 10
              THEN [ok |-> FALSE, val |-> 0]
              ELSE i32_digits(Tail(ds), acc * 10 + d, positive)
         ELSE IF acc < (I32Min + d + 9) \div 10
              THEN [ok |-> FALSE, val |-> 0]
              ELSE i32_digits(Tail(ds), acc * 10 - d, positive)

\* i32::from_str applied to the trimmed text
i32_from_str_trimmed(s) ==
    LET keep == {k \in 1..Len(s) : s[k] # " "} IN
    IF keep = {} THEN [ok |-> FALSE, val |-> 0]
    ELSE LET t == SubSeq(s, Min(keep), Max(keep)) IN
         IF Head(t) \in {"+", "-"} /\ Len(t) = 1 THEN [ok |-> FALSE, val |-> 0]
         ELSE IF Head(t) = "+" THEN i32_digits(Tail(t), 0, TRUE)
         ELSE IF Head(t) = "-" THEN i32_digits(Tail(t), 0, FALSE)
         ELSE i32_digits(t, 0, TRUE)

\* i32::from_str
i32_from_str(s) ==
    IF s = <<>> THEN [ok |-> FALSE, val |-> 0]
    ELSE IF Head(s) \in {"+", "-"} /\ Len(s) = 1 THEN [ok |-> FALSE, val |-> 0]
    ELSE IF Head(s) = "+" THEN i32_digits(Tail(s), 0, TRUE)
    ELSE IF Head(s) = "-" THEN i32_digits(Tail(s), 0, FALSE)
    ELSE i32_digits(s, 0, TRUE)

(***************************************************************************)
(* DS18B20Reading and its JSON encoding                                    *)
(*                                                                         *)
(* An f32 temperature is either NaN or the quotient of a millidegree count *)
(* by 1000, kept as sign, integer part and three decimals (an infinity     *)
(* only arises from configuration text).  For counts                       *)
(* below 16 384 000 the f32 quotient prints (shortest round-trip form) as  *)
(* exactly that decimal, so the model is exact on the inputs it draws.     *)
(***************************************************************************)
F32NaN == [nan |-> TRUE, inf |-> FALSE, neg |-> FALSE, int |-> 0, frac |-> 0]

Abs(n) == IF n < 0 THEN -n ELSE n

\* the division with the wrong divisor: centidegrees
f32_div_100(itemp) ==
    [nan |-> FALSE, inf |-> FALSE, neg |-> itemp < 0,
     int |-> Abs(itemp) \div 100, frac |-> (Abs(itemp) % 100) * 10]

\* (itemp as f32) / 1000.0f32
f32_div_1000(itemp) ==
    [nan |-> FALSE, inf |-> FALSE, neg |-> itemp < 0,
     int |-> Abs(itemp) \div 1000, frac |-> Abs(itemp) % 1000]

\* DS18B20Reading::new
DS18B20Reading(temperature) == [temperature |-> temperature]

RECURSIVE nat_to_text(_)
nat_to_text(n) ==
    IF n < 10 THEN <<Digits[n + 1]>>
    ELSE nat_to_text(n \div 10) \o <<Digits[(n % 10) + 1]>>

\* the decimals of a finite f32: trailing zeros dropped, at least one digit
frac_to_text(f) ==
    IF f = 0 THEN <<"0">>
    ELSE IF f % 100 = 0 THEN <<Digits[(f \div 100) + 1]>>
    ELSE IF f % 10 = 0
         THEN <<Digits[(f \div 100) + 1], Digits[((f \div 10) % 10) + 1]>>
    ELSE <<Digits[(f \div 100) + 1], Digits[((f \div 10) % 10) + 1],
           Digits[(f % 10) + 1]>>

\* serde_json's serialize_f32: null for a non-finite value, else the
\* shortest decimal that reads back as the same f32
f32_to_json(x) ==
    IF x.nan \/ x.inf THEN <<"n", "u", "l", "l">>
    ELSE (IF x.neg THEN <<"-">> ELSE <<>>)
            \o nat_to_text(x.int) \o <<".">> \o frac_to_text(x.frac)

TemperatureKey == <<"t", "e", "m", "p", "e", "r", "a", "t", "u", "r", "e">>

\* serde_json::to_string(&DS18B20Reading): {"temperature":<number or null>}
reading_to_string(r) ==
    <<"{", "\"">> \o TemperatureKey \o <<"\"", ":">>
        \o f32_to_json(r.temperature) \o <<"}">>

\* serde_json::to_string(&DS18B20Reading::new(f32::NAN)).unwrap()
SentinelString == reading_to_string(DS18B20Reading(F32NaN))

ValidMarker == <<"Y", "E", "S">>

\* read_to_string without the check of the validity marker
read_to_string_no_marker(file) ==
    IF file.status = "err" THEN SentinelString
    ELSE LET string_contents == from_utf8_or_empty(file.bytes) IN
    IF string_contents = <<>> THEN SentinelString
    ELSE LET ls == lines(string_contents) IN
    IF Len(ls) < 2 THEN SentinelString
    ELSE LET itemp == i32_from_str(rsplit_next(ls[2])) IN
    IF ~itemp.ok THEN SentinelString
    ELSE reading_to_string(DS18B20Reading(f32_div_1000(itemp.val)))

\* DS18B20Sensor::read_to_string, given what fs::read of the sensor's
\* w1_slave file returns: file.status = "err", or "ok" with file.bytes
read_to_string(file) ==
    IF file.status = "err" THEN SentinelString
    ELSE LET string_contents == from_utf8_or_empty(file.bytes) IN
    IF string_contents = <<>> THEN SentinelString
    ELSE LET ls == lines(string_contents) IN
    IF Len(ls) < 1 THEN SentinelString
    ELSE IF Len(ls) < 2 THEN SentinelString
    ELSE IF ~ends_with(ls[1], ValidMarker) THEN SentinelString
    ELSE LET itemp == i32_from_str(rsplit_next(ls[2])) IN
    IF ~itemp.ok THEN SentinelString
    ELSE reading_to_string(DS18B20Reading(f32_div_1000(itemp.val)))

(***************************************************************************)
(* The w1_slave files a read can meet.  Every file records how it was put  *)
(* together (kind, line1, line2, value) next to the bytes fs::read         *)
(* returns; read_to_string only ever looks at status and bytes.            *)
(***************************************************************************)
Pow10(k) == IF k = 0 THEN 1 ELSE IF k = 1 THEN 10 ELSE IF k = 2 THEN 100
            ELSE IF k = 3 THEN 1000 ELSE IF k = 4 THEN 10000 ELSE 100000

Mantissas == {0, 1, 7, 23, 25, 55, 85, 125, 999}

\* millidegree counts written into well-formed files
TempValues == {s * m * Pow10(k) : s \in {1, -1}, m \in Mantissas, k \in 0..MaxShift}

\* the ways a count is written: plain, with an explicit plus sign, or
\* with a leading zero
ValueTexts(v) ==
    IF v < 0 THEN {<<"-">> \o nat_to_text(-v), <<"-", "0">> \o nat_to_text(-v)}
    ELSE {nat_to_text(v), <<"+">> \o nat_to_text(v), <<"0">> \o nat_to_text(v)}

Line1Valid == {<<"Y", "E", "S">>,
               <<"c", "r", "c", "=", "5", "6", " ", "Y", "E", "S">>}
Line1Invalid == {<<>>,
                 <<"c", "r", "c", "=", "5", "6", " ", "N", "O">>,
                 <<"Y", "E", "S", " ">>,
                 <<"y", "e", "s">>}
LineEnds == {<<"\n">>, <<"\r", "\n">>}
Tails == {<<>>, <<"\n">>, <<"\r", "\n">>, <<"\n", "x", "=", "1">>}
\* what precedes the value on the second line
Line2Prefixes == {<<>>, <<"t", "=">>, <<"a", "=", "b", "=">>,
                  <<"5", "6", " ", "t", "=">>}
\* second lines whose trailing text is no i32
Line2Bad == {<<>>,
             <<"t", "=">>,
             <<"t", "=", "a", "b", "c">>,
             <<"a", "b", "c">>,
             <<"t", "=", "2", "5", "0", "0", "0", " ">>,
             <<"t", "=", " ", "2", "5", "0", "0", "0">>,
             <<"2", "5", "0", "0", "0", " ", "t">>,
             <<"t", "=", "2", "5", ".", "5">>,
             <<"t", "=", "+">>,
             <<"-">>,
             <<"t", "=", "-", "-", "5">>,
             <<"t", "=", "2", "5", "0", "0", "0", "=">>,
             <<"t", "=", "2", "1", "4", "7", "4", "8", "3", "6", "4", "8">>,
             <<"-", "2", "1", "4", "7", "4", "8", "3", "6", "4", "9">>,
             <<"t", "=", "9", "9", "9", "9", "9", "9", "9", "9", "9", "9", "9">>}

File(status, bytes, kind, l1, l2, v) ==
    [status |-> status, bytes |-> bytes, kind |-> kind,
     line1 |-> l1, line2 |-> l2, value |-> v]

NoFile == File("none", <<>>, "none", <<>>, <<>>, 0)

WellFormedFiles ==
    UNION {
      {File("ok", l1 \o e \o p \o t \o tl, "well_formed", l1, p \o t, v) :
          l1 \in Line1Valid, e \in LineEnds, p \in Line2Prefixes,
          t \in ValueTexts(v), tl \in Tails} : v \in TempValues}

\* first line without the validity marker, second line a good value
NoMarkerFiles ==
    {File("ok", l1 \o e \o p \o nat_to_text(25000) \o tl, "no_marker",
          l1, p \o nat_to_text(25000), 25000) :
        l1 \in Line1Invalid, e \in LineEnds,
        p \in {<<>>, <<"t", "=">>}, tl \in Tails}

\* valid first line, second line without a parsable trailing integer
BadValueFiles ==
    {File("ok", l1 \o e \o l2 \o tl, "bad_value", l1, l2, 0) :
        l1 \in Line1Valid, e \in LineEnds, l2 \in Line2Bad, tl \in Tails}

\* a single line, with or without its line ending
OneLineFiles ==
    {File("ok", l1 \o e, "one_line", l1, <<>>, 0) :
        l1 \in Line1Valid \cup {<<"t", "=", "2", "5", "0", "0", "0">>},
        e \in LineEnds \cup {<<>>}}
      \cup {File("ok", e, "one_line", <<>>, <<>>, 0) : e \in LineEnds}

EmptyFile == File("ok", <<>>, "empty", <<>>, <<>>, 0)
UnreadableFile == File("err", <<>>, "unreadable", <<>>, <<>>, 0)

\* a well-formed text with one undecodable byte somewhere in it
NotUtf8Files ==
    {File("ok", h \o <<BadByte>> \o t, "not_utf8", <<>>, <<>>, 0) :
        h \in {<<>>, <<"c", "r", "c", "=", "5", "6", " ", "Y", "E", "S", "\n">>},
        t \in {<<>>, <<"t", "=", "2", "5", "0", "0", "0">>,
               <<"Y", "E", "S", "\n", "t", "=", "2", "5", "0", "0", "0", "\n">>}}

MalformedKinds == {"unreadable", "not_utf8", "empty", "one_line", "no_marker",
                   "bad_value"}

\* every file the driver is exercised on
FileInputs ==
    WellFormedFiles \cup NoMarkerFiles \cup BadValueFiles \cup OneLineFiles
        \cup NotUtf8Files \cup {EmptyFile, UnreadableFile}

\* the files met inside the polling loop of the whole program
FilesMain ==
    {UnreadableFile,
     File("ok", <<"Y", "E", "S", "\n", "t", "=", "2", "5", "0", "0", "0", "\n">>,
          "well_formed", <<"Y", "E", "S">>, <<"t", "=", "2", "5", "0", "0", "0">>,
          25000),
     File("ok", <<"c", "r", "c", "=", "5", "6", " ", "N", "O", "\n",
                  "t", "=", "2", "5", "0", "0", "0", "\n">>,
          "no_marker", <<"c", "r", "c", "=", "5", "6", " ", "N", "O">>,
          <<"t", "=", "2", "5", "0", "0", "0">>, 25000)}

(***************************************************************************)
(* The device directory and get_sensors                                    *)
(*                                                                         *)
(* /sys/bus/w1/devices/ is a sysfs directory: its entry names are ASCII    *)
(* and, as in any directory, pairwise different.  An entry that read_dir   *)
(* fails to produce has ok = FALSE.                                        *)
(***************************************************************************)
FamilyPrefix == <<"2", "8", "-">>

EntryNames == {<<"2", "8", "-", "0", "1">>,
               <<"2", "8", "-", "0", "2">>,
               <<"2", "8", "-">>,
               <<"1", "0", "-", "0", "1">>,
               <<"2", "8">>,
               <<"w", "1", "-", "2", "8", "-", "0", "1">>}

Entry(ok, name) == [ok |-> ok, name |-> name]
ErrEntry == Entry(FALSE, <<>>)

DirEntries == {Entry(TRUE, n) : n \in EntryNames} \cup {ErrEntry}

RECURSIVE SeqsUpTo(_, _)
SeqsUpTo(S, n) ==
    IF n = 0 THEN {<<>>}
    ELSE LET shorter == SeqsUpTo(S, n - 1) IN
         shorter \cup {Append(q, x) : q \in shorter, x \in S}

DistinctNames(es) ==
    \A a, b \in 1..Len(es) : (a # b /\ es[a].ok /\ es[b].ok) => es[a].name # es[b].name

Dir(readable, entries) == [readable |-> readable, entries |-> entries]

\* every directory get_sensors is exercised on
DirInputs ==
    {Dir(FALSE, <<>>)}
        \cup {Dir(TRUE, es) : es \in {q \in SeqsUpTo(DirEntries, MaxEntries) : DistinctNames(q)}}

\* DS18B20_DEVICE_PATH
DS18B20_DEVICE_PATH == <<"/", "s", "y", "s", "/", "b", "u", "s", "/", "w", "1",
                         "/", "d", "e", "v", "i", "c", "e", "s", "/">>

\* DirEntry::path: the directory joined with the entry's name
entry_path(device) == DS18B20_DEVICE_PATH \o device.name

\* path.strip_prefix(DS18B20_DEVICE_PATH).unwrap().as_os_str().to_string_lossy()
strip_device_path(path) == SubSeq(path, Len(DS18B20_DEVICE_PATH) + 1, Len(path))

\* DS18B20Sensor::new
DS18B20Sensor(id_os) == [id |-> id_os]

\* Sensor::identifier
identifier(sensor) == sensor.id

\* the body of the for loop of get_sensors over the entries read_dir yields
RECURSIVE collect_sensors(_, _)
collect_sensors(entries, result) ==
    IF entries = <<>> THEN result
    ELSE LET device == Head(entries) IN
         IF ~device.ok THEN collect_sensors(Tail(entries), result)
         ELSE LET id == strip_device_path(entry_path(device)) IN
              IF ~starts_with(id, FamilyPrefix)
              THEN collect_sensors(Tail(entries), result)
              ELSE collect_sensors(Tail(entries),
                                   Append(result, DS18B20Sensor(id)))

\* get_sensors: Err when read_dir of the device directory fails
get_sensors(dir) ==
    IF ~dir.readable THEN [ok |-> FALSE, val |-> <<>>]
    ELSE [ok |-> TRUE, val |-> collect_sensors(dir.entries, <<>>)]

\* the directories met by the whole program
DirsMain ==
    {Dir(FALSE, <<>>),
     Dir(TRUE, <<>>),
     Dir(TRUE, <<Entry(TRUE, <<"2", "8", "-", "0", "1">>)>>),
     Dir(TRUE, <<Entry(TRUE, <<"1", "0", "-", "0", "1">>),
                 Entry(TRUE, <<"2", "8", "-", "0", "2">>),
                 ErrEntry,
                 Entry(TRUE, <<"2", "8", "-", "0", "1">>)>>)}

(***************************************************************************)
(* The process environment and Environment::new                            *)
(***************************************************************************)
EnvVars == {"HOSTNAME", "MQTT_USER", "MQTT_PASSWORD", "MQTT_HOST", "MQTT_PORT",
            "MQTT_TOPIC", "MQTT_QOS", "MQTT_READ_INTERVAL", "CA_CERT",
            "CLIENT_CERT", "CLIENT_CERT_KEY", "CLIENT_CERT_KEY_PASS"}

Unset == [set |-> FALSE, text |-> <<>>]
Val(text) == [set |-> TRUE, text |-> text]

BaseEnv ==
    [n \in EnvVars |->
        CASE n = "HOSTNAME" -> Val(<<"p", "i">>)
          [] n = "MQTT_USER" -> Val(<<"u">>)
          [] n = "MQTT_PASSWORD" -> Val(<<"p", "w">>)
          [] n = "MQTT_HOST" -> Val(<<"m", "q">>)
          [] n = "MQTT_PORT" -> Val(<<"8", "8", "8", "3">>)
          [] n = "MQTT_TOPIC" -> Val(<<"t", "/", "a">>)
          [] n = "MQTT_QOS" -> Val(<<"1">>)
          [] n = "MQTT_READ_INTERVAL" -> Val(<<"1", "0">>)
          [] n = "CA_CERT" -> Val(<<"c", "a">>)
          [] OTHER -> Unset]

With(env, name, v) == [env EXCEPT ![name] = v]

\* the variables Environment::new cannot do without: the six read with
\* expect and the three read through parse, which panics on Err(_)
NeededVars == {"HOSTNAME", "MQTT_USER", "MQTT_PASSWORD", "MQTT_HOST",
               "MQTT_PORT", "MQTT_TOPIC", "MQTT_QOS", "MQTT_READ_INTERVAL",
               "CA_CERT"}

\* the environments the whole program is started in
EnvMain ==
    {BaseEnv,
     With(BaseEnv, "MQTT_QOS", Val(<<"2">>)),
     With(With(BaseEnv, "MQTT_READ_INTERVAL", Val(<<"2", ".", "5">>)),
          "MQTT_TOPIC", Val(<<"t", "/", "b">>)),
     With(BaseEnv, "MQTT_READ_INTERVAL", Val(<<"-", "1">>)),
     With(With(With(BaseEnv, "CLIENT_CERT", Val(<<"c">>)),
               "CLIENT_CERT_KEY", Val(<<"k">>)),
          "CLIENT_CERT_KEY_PASS", Val(<<"s">>))}
        \cup {With(BaseEnv, n, Unset) : n \in NeededVars}

\* env::var: Err(_) for a variable that is not set
env_var(env, name) ==
    IF env[name].set THEN [ok |-> TRUE, val |-> env[name].text]
    ELSE [ok |-> FALSE, val |-> <<>>]

\* the digits after the decimal point as thousandths (at most three digits)
frac_value(ds) ==
    IF Len(ds) = 0 THEN 0
    ELSE IF Len(ds) = 1 THEN DigitVal(ds[1]) * 100
    ELSE IF Len(ds) = 2 THEN DigitVal(ds[1]) * 100 + DigitVal(ds[2]) * 10
    ELSE DigitVal(ds[1]) * 100 + DigitVal(ds[2]) * 10 + DigitVal(ds[3])

AllDigits(ds) == \A k \in 1..Len(ds) : IsDigit(ds[k])

\* f32::from_str on the decimal texts the model draws: an optional sign,
\* then "nan", "inf", or digits with an optional point and up to three
\* decimals; anything else is Err(_)
f32_from_str(s) ==
    LET signed == s # <<>> /\ Head(s) \in {"+", "-"}
        neg == s # <<>> /\ Head(s) = "-"
        body == IF signed THEN Tail(s) ELSE s
        dots == {k \in 1..Len(body) : body[k] = "."}
        ip == IF dots = {} THEN body ELSE SubSeq(body, 1, Min(dots) - 1)
        fp == IF dots = {} THEN <<>> ELSE SubSeq(body, Min(dots) + 1, Len(body))
        bad == [ok |-> FALSE, val |-> F32NaN]
    IN  IF body = <<"n", "a", "n">> THEN [ok |-> TRUE, val |-> F32NaN]
        ELSE IF body = <<"i", "n", "f">>
        THEN [ok |-> TRUE,
              val |-> [nan |-> FALSE, inf |-> TRUE, neg |-> neg, int |-> 0, frac |-> 0]]
        ELSE IF Len(ip) + Len(fp) = 0 \/ Len(ip) > 6 \/ Len(fp) > 3 THEN bad
        ELSE IF ~AllDigits(ip) \/ ~AllDigits(fp) THEN bad
        ELSE [ok |-> TRUE,
              val |-> [nan |-> FALSE, inf |-> FALSE, neg |-> neg,
                       int |-> (IF ip = <<>> THEN 0 ELSE i32_from_str(ip).val),
                       frac |-> frac_value(fp)]]

\* parse::<i32, _>: the default when the text does not parse; the caller
\* has already dealt with Err(_), on which parse panics
parse_i32(val, default) ==
    LET update == i32_from_str(val) IN IF update.ok THEN update.val ELSE default

\* parse::<f32, _>
parse_f32(val, default) ==
    LET update == f32_from_str(val) IN IF update.ok THEN update.val ELSE default

F32Ten == [nan |-> FALSE, inf |-> FALSE, neg |-> FALSE, int |-> 10, frac |-> 0]

\* the variables Environment::new reads, in the order it reads them, with
\* whether a missing one panics (expect, or parse on Err(_))
EnvOrder == <<"HOSTNAME", "MQTT_USER", "MQTT_PASSWORD", "MQTT_HOST",
              "MQTT_PORT", "MQTT_TOPIC", "MQTT_QOS", "MQTT_READ_INTERVAL",
              "CA_CERT">>

\* Environment::new: ok = FALSE when it panics, why = the variable at fault
Environment_new(env) ==
    LET missing == {k \in 1..Len(EnvOrder) : ~env_var(env, EnvOrder[k]).ok} IN
    IF missing # {}
    THEN [ok |-> FALSE, why |-> EnvOrder[Min(missing)], val |-> <<>>]
    ELSE [ok |-> TRUE, why |-> "",
          val |-> [host |-> env_var(env, "HOSTNAME").val,
                   mqtt_user |-> env_var(env, "MQTT_USER").val,
                   mqtt_password |-> env_var(env, "MQTT_PASSWORD").val,
                   mqtt_host |-> env_var(env, "MQTT_HOST").val,
                   mqtt_port |-> parse_i32(env_var(env, "MQTT_PORT").val, 8883),
                   topic |-> env_var(env, "MQTT_TOPIC").val,
                   qos |-> parse_i32(env_var(env, "MQTT_QOS").val, 1),
                   interval |-> parse_f32(env_var(env, "MQTT_READ_INTERVAL").val, F32Ten),
                   ca_cert |-> env_var(env, "CA_CERT").val,
                   client_cert |-> env_var(env, "CLIENT_CERT"),
                   client_cert_key |-> env_var(env, "CLIENT_CERT_KEY"),
                   client_cert_key_pass |-> env_var(env, "CLIENT_CERT_KEY_PASS")]]

\* Duration::from_secs_f32: panics on a negative or non-finite value;
\* otherwise the duration, here in milliseconds
from_secs_f32(x) ==
    IF x.nan \/ x.inf \/ (x.neg /\ (x.int # 0 \/ x.frac # 0))
    THEN [ok |-> FALSE, val |-> 0]
    ELSE [ok |-> TRUE, val |-> x.int * 1000 + x.frac]

(***************************************************************************)
(* The published message                                                   *)
(***************************************************************************)
\* serde_json's string encoding: quotes around the text, with a backslash
\* before every quote and backslash
RECURSIVE json_escape(_)
json_escape(s) ==
    IF s = <<>> THEN <<>>
    ELSE IF Head(s) \in {"\"", "\\"} THEN <<"\\", Head(s)>> \o json_escape(Tail(s))
    ELSE <<Head(s)>> \o json_escape(Tail(s))

json_string(s) == <<"\"">> \o json_escape(s) \o <<"\"">>

\* the entries with each reading nested as an object instead of a string
RECURSIVE json_entries_nested(_, _)
json_entries_nested(map, order) ==
    IF order = <<>> THEN <<>>
    ELSE json_string(Head(order)) \o <<":">> \o map[Head(order)]
            \o (IF Len(order) > 1 THEN <<",">> ELSE <<>>)
            \o json_entries_nested(map, Tail(order))

\* the entries of a JSON object, separated by commas, in iteration order
RECURSIVE json_entries(_, _)
json_entries(map, order) ==
    IF order = <<>> THEN <<>>
    ELSE json_string(Head(order)) \o <<":">> \o json_string(map[Head(order)])
            \o (IF Len(order) > 1 THEN <<",">> ELSE <<>>)
            \o json_entries(map, Tail(order))

\* serde_json::to_string(&readings) for the HashMap iterated in this order;
\* with text keys and text values it cannot fail, so "ERR" never appears
map_to_string(map, order) == <<"{">> \o json_entries(map, order) \o <<"}">>

\* the orders in which a HashMap with these keys may be iterated
IterationOrders(keys) ==
    {q \in SeqsUpTo(keys, Cardinality(keys)) :
        /\ Len(q) = Cardinality(keys)
        /\ \A a, b \in 1..Len(q) : a # b => q[a] # q[b]}

\* paho_mqtt::Message::new
Message(topic, payload, qos) == [topic |-> topic, payload |-> payload, qos |-> qos]
NoMessage == Message(<<>>, <<>>, 0)
\* no payload has been handed to client.publish in the cycle in progress
NoPayload == <<>>

\* HashMap::new and HashMap::insert
EmptyMap == [k \in {} |-> <<>>]
insert(map, key, value) ==
    [k \in DOMAIN map \cup {key} |-> IF k = key THEN value ELSE map[k]]

(***************************************************************************)
(* The program: main                                                       *)
(***************************************************************************)
\* number of finished polling cycles whose calls are remembered
History == 2

Call(op, ok, arg) == [op |-> op, ok |-> ok, arg |-> arg]

Running == [exited |-> FALSE, code |-> 0]
\* a panic of the main thread ends the process with status 101
Panicked == [exited |-> TRUE, code |-> 101]
\* main returning Err(_) ends the process with status 1
Failed == [exited |-> TRUE, code |-> 1]

NoConfig == [loaded |-> FALSE]

LoopPcs == {"sleep", "poll", "is_connected", "reconnect", "publish"}
InLoop == pc \in LoopPcs

Remember(log) ==
    LET all == Append(prev, log) IN
    IF Len(all) > History THEN SubSeq(all, Len(all) - History + 1, Len(all)) ELSE all

Init ==
    /\ pc = "get_client"
    /\ exit = Running
    /\ boot = <<>>
    /\ environ \in EnvMain
    /\ config = NoConfig
    /\ wait_time = 0
    /\ devices \in DirsMain
    /\ sensors = <<>>
    /\ idx = 0
    /\ readings = EmptyMap
    /\ lastFile = NoFile
    /\ message = NoMessage
    /\ calls = <<>>
    /\ prev = <<>>
    /\ published = NoPayload

\* what the broker library can answer while get_client sets the client up
ClientOutcomes(env) ==
    {"client_err", "ca_err", "connect_err", "connected"}
        \cup (IF env.client_cert.ok /\ env.client_cert_key.ok
                  /\ env.client_cert_key_pass.ok
              THEN {"key_err"} ELSE {})

\* get_client with the result of connect ignored instead of unwrapped
GetClient_IgnoreConnectError ==
    /\ pc = "get_client"
    /\ LET e == Environment_new(environ) IN
       IF ~e.ok
       THEN /\ boot' = Append(boot, Call("config", FALSE, <<>>))
            /\ exit' = Panicked
            /\ pc' = "exited"
            /\ UNCHANGED config
       ELSE \E outcome \in ClientOutcomes(e.val) :
            /\ config' = [loaded |-> TRUE, env |-> e.val]
            /\ boot' = boot \o <<Call("config", TRUE, <<>>),
                                 Call("connect", outcome = "connected", <<>>)>>
            /\ exit' = IF outcome \in {"connected", "connect_err"} THEN Running
                       ELSE Failed
            /\ pc' = IF outcome \in {"connected", "connect_err"}
                     THEN "wait_time" ELSE "exited"
    /\ UNCHANGED <<environ, wait_time, devices, sensors, idx, readings,
                   lastFile, message, calls, prev, published>>

\* main, line 262: get_client()?, which on its first use of ENVIRONMENT
\* runs Environment::new
GetClient ==
    /\ pc = "get_client"
    /\ LET e == Environment_new(environ) IN
       IF ~e.ok
       THEN /\ boot' = Append(boot, Call("config", FALSE, <<>>))
            /\ exit' = Panicked
            /\ pc' = "exited"
            /\ UNCHANGED config
       ELSE \E outcome \in ClientOutcomes(e.val) :
            /\ config' = [loaded |-> TRUE, env |-> e.val]
            /\ boot' = boot \o <<Call("config", TRUE, <<>>),
                                 Call("connect", outcome = "connected", <<>>)>>
            /\ exit' = IF outcome = "connected" THEN Running
                       ELSE IF outcome = "connect_err" THEN Panicked
                       ELSE Failed
            /\ pc' = IF outcome = "connected" THEN "wait_time" ELSE "exited"
    /\ UNCHANGED <<environ, wait_time, devices, sensors, idx, readings,
                   lastFile, message, calls, prev, published>>

\* main, line 264: Duration::from_secs_f32(ENVIRONMENT.interval)
WaitTime ==
    /\ pc = "wait_time"
    /\ LET d == from_secs_f32(config.env.interval) IN
       /\ boot' = Append(boot, Call("wait_time", d.ok, <<>>))
       /\ IF d.ok
          THEN /\ wait_time' = d.val
               /\ pc' = "get_sensors"
               /\ UNCHANGED exit
          ELSE /\ exit' = Panicked
               /\ pc' = "exited"
               /\ UNCHANGED wait_time
    /\ UNCHANGED <<environ, config, devices, sensors, idx, readings,
                   lastFile, message, calls, prev, published>>

\* the loop entered at the reads: the first cycle does not sleep
GetSensors_NoFirstDelay ==
    /\ pc = "get_sensors"
    /\ LET r == get_sensors(devices) IN
       /\ boot' = Append(boot, Call("get_sensors", r.ok, <<>>))
       /\ IF r.ok
          THEN /\ sensors' = r.val
               /\ pc' = "poll"
               /\ idx' = 1
               /\ UNCHANGED exit
          ELSE /\ exit' = Failed
               /\ pc' = "exited"
               /\ UNCHANGED <<sensors, idx>>
    /\ UNCHANGED <<environ, config, wait_time, devices, readings,
                   lastFile, message, calls, prev, published>>

\* get_sensors()'s error swallowed: the loop starts without sensors
GetSensors_Lenient ==
    /\ pc = "get_sensors"
    /\ LET r == get_sensors(devices) IN
       /\ boot' = Append(boot, Call("get_sensors", r.ok, <<>>))
       /\ sensors' = r.val
       /\ pc' = "sleep"
    /\ UNCHANGED <<exit, environ, config, wait_time, devices, idx, readings,
                   lastFile, message, calls, prev, published>>

\* main, line 266: get_sensors()?
GetSensors ==
    /\ pc = "get_sensors"
    /\ LET r == get_sensors(devices) IN
       /\ boot' = Append(boot, Call("get_sensors", r.ok, <<>>))
       /\ IF r.ok
          THEN /\ sensors' = r.val
               /\ pc' = "sleep"
               /\ UNCHANGED exit
          ELSE /\ exit' = Failed
               /\ pc' = "exited"
               /\ UNCHANGED sensors
    /\ UNCHANGED <<environ, config, wait_time, devices, idx, readings,
                   lastFile, message, calls, prev, published>>

\* the sleep that keeps the snapshot of the cycle before
Sleep_KeepReadings ==
    /\ pc = "sleep"
    /\ prev' = IF calls = <<>> THEN prev ELSE Remember(calls)
    /\ calls' = <<Call("sleep", TRUE, <<wait_time>>)>>
    /\ idx' = 1
    /\ pc' = "poll"
    /\ published' = NoPayload
    /\ UNCHANGED <<exit, boot, environ, config, wait_time, devices, sensors,
                   readings, lastFile, message>>

\* the sleep followed by a new enumeration of the device directory
Sleep_Rescan ==
    /\ pc = "sleep"
    /\ prev' = IF calls = <<>> THEN prev ELSE Remember(calls)
    /\ calls' = <<Call("sleep", TRUE, <<wait_time>>)>>
    /\ readings' = EmptyMap
    /\ idx' = 1
    /\ pc' = "poll"
    /\ published' = NoPayload
    /\ sensors' = IF get_sensors(devices).ok THEN get_sensors(devices).val ELSE sensors
    /\ UNCHANGED <<exit, boot, environ, config, wait_time, devices,
                   lastFile, message>>

\* main, lines 269-271: thread::sleep(wait_time), then a new HashMap
Sleep ==
    /\ pc = "sleep"
    /\ prev' = IF calls = <<>> THEN prev ELSE Remember(calls)
    /\ calls' = <<Call("sleep", TRUE, <<wait_time>>)>>
    /\ readings' = EmptyMap
    /\ idx' = 1
    /\ pc' = "poll"
    /\ published' = NoPayload
    /\ UNCHANGED <<exit, boot, environ, config, wait_time, devices, sensors,
                   lastFile, message>>

\* the loop turn that leaves a failed read out of the snapshot
ReadSensor_SkipFailed(files) ==
    /\ pc = "poll"
    /\ idx <= Len(sensors)
    /\ \E f \in files :
        /\ lastFile' = f
        /\ readings' = IF read_to_string(f) = SentinelString THEN readings
                       ELSE insert(readings, identifier(sensors[idx]), read_to_string(f))
    /\ calls' = Append(calls, Call("read", TRUE, identifier(sensors[idx])))
    /\ idx' = idx + 1
    /\ UNCHANGED <<pc, exit, boot, environ, config, wait_time, devices, sensors,
                   message, prev, published>>

\* main, lines 273-275: one turn of the for loop; fs::read meets one of
\* the given files
ReadSensor(files) ==
    /\ pc = "poll"
    /\ idx <= Len(sensors)
    /\ \E f \in files :
        /\ lastFile' = f
        /\ readings' = insert(readings, identifier(sensors[idx]), read_to_string(f))
    /\ calls' = Append(calls, Call("read", TRUE, identifier(sensors[idx])))
    /\ idx' = idx + 1
    /\ UNCHANGED <<pc, exit, boot, environ, config, wait_time, devices, sensors,
                   message, prev, published>>

\* main, lines 277-281: the message with the serialized snapshot
NewMessage ==
    /\ pc = "poll"
    /\ idx > Len(sensors)
    /\ \E order \in IterationOrders(DOMAIN readings) :
        message' = Message(config.env.topic, map_to_string(readings, order),
                           config.env.qos)
    /\ pc' = "is_connected"
    /\ UNCHANGED <<exit, boot, environ, config, wait_time, devices, sensors, idx,
                   readings, lastFile, calls, prev, published>>

\* the connection check skipped once two cycles in a row failed to
\* reconnect: a failure count carried from cycle to cycle
IsConnected_Remembered ==
    /\ pc = "is_connected"
    /\ IF Len(prev) >= 2
          /\ (\A c \in {Len(prev) - 1, Len(prev)} :
                 \E i \in 1..Len(prev[c]) : prev[c][i] = Call("reconnect", FALSE, <<>>))
       THEN pc' = "reconnect" /\ UNCHANGED calls
       ELSE \E connected \in BOOLEAN :
               /\ calls' = Append(calls, Call("is_connected", connected, <<>>))
               /\ pc' = IF connected THEN "publish" ELSE "reconnect"
    /\ UNCHANGED <<exit, boot, environ, config, wait_time, devices, sensors, idx,
                   readings, lastFile, message, prev, published>>

\* main, line 283: client.is_connected()
IsConnected ==
    /\ pc = "is_connected"
    /\ \E connected \in BOOLEAN :
        /\ calls' = Append(calls, Call("is_connected", connected, <<>>))
        /\ pc' = IF connected THEN "publish" ELSE "reconnect"
    /\ UNCHANGED <<exit, boot, environ, config, wait_time, devices, sensors, idx,
                   readings, lastFile, message, prev, published>>

\* the reconnect that waits for the broker: after an error the cycle goes
\* back to the connection check instead of giving the cycle up
Reconnect_UntilUp ==
    /\ pc = "reconnect"
    /\ \E ok \in BOOLEAN :
        IF ok
        THEN /\ calls' = Append(calls, Call("reconnect", TRUE, <<>>))
             /\ pc' = "publish"
        ELSE /\ calls' = SubSeq(calls, 1, Len(calls) - 1)
             /\ pc' = "is_connected"
    /\ UNCHANGED <<exit, boot, environ, config, wait_time, devices, sensors, idx,
                   readings, lastFile, message, prev, published>>

\* the reconnect tried a second time in the same cycle after an error
Reconnect_Twice ==
    /\ pc = "reconnect"
    /\ \E ok \in BOOLEAN :
        /\ calls' = Append(calls, Call("reconnect", ok, <<>>))
        /\ IF ok
           THEN pc' = "publish" /\ UNCHANGED message
           ELSE IF \E i \in 1..Len(calls) : calls[i].op = "reconnect"
                THEN pc' = "sleep" /\ message' = NoMessage
                ELSE pc' = "reconnect" /\ UNCHANGED message
    /\ UNCHANGED <<exit, boot, environ, config, wait_time, devices, sensors, idx,
                   readings, lastFile, prev, published>>

\* the reconnect without its continue: the cycle goes on to publish
Reconnect_NoContinue ==
    /\ pc = "reconnect"
    /\ \E ok \in BOOLEAN :
        calls' = Append(calls, Call("reconnect", ok, <<>>))
    /\ pc' = "publish"
    /\ UNCHANGED <<exit, boot, environ, config, wait_time, devices, sensors, idx,
                   readings, lastFile, message, prev, published>>

\* main, lines 284-286: client.reconnect(); continue on Err(_)
Reconnect ==
    /\ pc = "reconnect"
    /\ \E ok \in BOOLEAN :
        /\ calls' = Append(calls, Call("reconnect", ok, <<>>))
        /\ IF ok
           THEN pc' = "publish" /\ UNCHANGED message
           ELSE pc' = "sleep" /\ message' = NoMessage
    /\ UNCHANGED <<exit, boot, environ, config, wait_time, devices, sensors, idx,
                   readings, lastFile, prev, published>>

\* the publish tried again in the same cycle after an error
Publish_Retry ==
    /\ pc = "publish"
    /\ \E ok \in BOOLEAN :
        /\ calls' = Append(calls, Call("publish", ok, <<message.topic, <<message.qos>>>>))
        /\ IF ok \/ Len(calls) > 6
           THEN pc' = "sleep" /\ message' = NoMessage
           ELSE pc' = "publish" /\ UNCHANGED message
    /\ published' = message.payload
    /\ UNCHANGED <<exit, boot, environ, config, wait_time, devices, sensors, idx,
                   readings, lastFile, prev>>

\* the publish with its error propagated out of main
Publish_Fatal ==
    /\ pc = "publish"
    /\ \E ok \in BOOLEAN :
        /\ calls' = Append(calls, Call("publish", ok, <<message.topic, <<message.qos>>>>))
        /\ pc' = IF ok THEN "sleep" ELSE "exited"
        /\ exit' = IF ok THEN exit ELSE Failed
    /\ message' = NoMessage
    /\ published' = message.payload
    /\ UNCHANGED <<boot, environ, config, wait_time, devices, sensors, idx,
                   readings, lastFile, prev>>

\* main, lines 289-291: client.publish(message); an Err(_) is only logged
Publish ==
    /\ pc = "publish"
    /\ \E ok \in BOOLEAN :
        calls' = Append(calls, Call("publish", ok, <<message.topic, <<message.qos>>>>))
    /\ message' = NoMessage
    /\ pc' = "sleep"
    /\ published' = message.payload
    /\ UNCHANGED <<exit, boot, environ, config, wait_time, devices, sensors, idx,
                   readings, lastFile, prev>>

Next ==
    \/ GetClient
    \/ WaitTime
    \/ GetSensors
    \/ Sleep
    \/ ReadSensor(FilesMain)
    \/ NewMessage
    \/ IsConnected
    \/ Reconnect
    \/ Publish

Spec == Init /\ [][Next]_vars

\* The loop is one thread whose sleep, file reads and broker calls all
\* return: a step of the loop that can be taken is eventually taken.
LoopStep ==
    Sleep \/ ReadSensor(FilesMain) \/ NewMessage \/ IsConnected \/ Reconnect \/ Publish

SpecFair == Init /\ [][Next]_vars /\ WF_vars(LoopStep)

(***************************************************************************)
(* The sensor driver on its own: one sensor, one read, every file          *)
(***************************************************************************)
InitRead ==
    /\ pc = "poll"
    /\ exit = Running
    /\ boot = <<>>
    /\ environ = BaseEnv
    /\ config = [loaded |-> TRUE, env |-> Environment_new(BaseEnv).val]
    /\ wait_time = 10000
    /\ devices = Dir(TRUE, <<Entry(TRUE, <<"2", "8", "-", "0", "1">>)>>)
    /\ sensors = <<DS18B20Sensor(<<"2", "8", "-", "0", "1">>)>>
    /\ idx = 1
    /\ readings = EmptyMap
    /\ lastFile = NoFile
    /\ message = NoMessage
    /\ calls = <<>>
    /\ prev = <<>>
    /\ published = NoPayload

NextRead == ReadSensor(FileInputs)

SpecRead == InitRead /\ [][NextRead]_vars

(***************************************************************************)
(* The end-to-end scenario: a started process whose device directory holds *)
(* the sensor 28-0000001, alone or next to a second sensor                 *)
(***************************************************************************)
ScenarioId == <<"2", "8", "-", "0", "0", "0", "0", "0", "0", "1">>

\* a1 01 4b 46 7f ff 0c 10 56 : crc=56 YES
ScenarioLine1 ==
    <<"a", "1", " ", "0", "1", " ", "4", "b", " ", "4", "6", " ", "7", "f", " ",
      "f", "f", " ", "0", "c", " ", "1", "0", " ", "5", "6", " ", ":", " ",
      "c", "r", "c", "=", "5", "6", " ", "Y", "E", "S">>
ScenarioLine2 == <<"2", "3", "0", "0", "0">>

ScenarioFile ==
    File("ok", ScenarioLine1 \o <<"\n">> \o ScenarioLine2, "well_formed",
         ScenarioLine1, ScenarioLine2, 23000)

FilesScenario == {ScenarioFile, UnreadableFile}

ScenarioDirs ==
    {Dir(TRUE, <<Entry(TRUE, ScenarioId)>>),
     Dir(TRUE, <<Entry(TRUE, <<"2", "8", "-", "0", "1">>), Entry(TRUE, ScenarioId)>>)}

InitScenario ==
    /\ pc = "get_sensors"
    /\ exit = Running
    /\ boot = <<Call("config", TRUE, <<>>), Call("connect", TRUE, <<>>),
                Call("wait_time", TRUE, <<>>)>>
    /\ environ = BaseEnv
    /\ config = [loaded |-> TRUE, env |-> Environment_new(BaseEnv).val]
    /\ wait_time = 10000
    /\ devices \in ScenarioDirs
    /\ sensors = <<>>
    /\ idx = 0
    /\ readings = EmptyMap
    /\ lastFile = NoFile
    /\ message = NoMessage
    /\ calls = <<>>
    /\ prev = <<>>
    /\ published = NoPayload

NextScenario ==
    \/ GetSensors
    \/ Sleep
    \/ ReadSensor(FilesScenario)
    \/ NewMessage
    \/ IsConnected
    \/ Reconnect
    \/ Publish

SpecScenario == InitScenario /\ [][NextScenario]_vars

(***************************************************************************)
(* The program on a host whose sensors come and go while the loop runs     *)
(***************************************************************************)
\* the host: sensors are plugged or unplugged, /sys/bus/w1/devices changes
HotPlug ==
    /\ InLoop
    /\ \E d \in DirsMain \ {devices} : devices' = d
    /\ UNCHANGED <<pc, exit, boot, environ, config, wait_time, sensors, idx,
                   readings, lastFile, message, calls, prev, published>>

InitPlug ==
    /\ pc = "get_client"
    /\ exit = Running
    /\ boot = <<>>
    /\ environ = BaseEnv
    /\ config = NoConfig
    /\ wait_time = 0
    /\ devices \in DirsMain
    /\ sensors = <<>>
    /\ idx = 0
    /\ readings = EmptyMap
    /\ lastFile = NoFile
    /\ message = NoMessage
    /\ calls = <<>>
    /\ prev = <<>>
    /\ published = NoPayload

NextPlug == Next \/ HotPlug

SpecPlug == InitPlug /\ [][NextPlug]_vars

(***************************************************************************)
(* The registry on its own: get_sensors on every directory                 *)
(***************************************************************************)
InitDir ==
    /\ pc = "get_sensors"
    /\ exit = Running
    /\ boot = <<>>
    /\ environ = BaseEnv
    /\ config = [loaded |-> TRUE, env |-> Environment_new(BaseEnv).val]
    /\ wait_time = 10000
    /\ devices \in DirInputs
    /\ sensors = <<>>
    /\ idx = 0
    /\ readings = EmptyMap
    /\ lastFile = NoFile
    /\ message = NoMessage
    /\ calls = <<>>
    /\ prev = <<>>
    /\ published = NoPayload

NextDir == GetSensors

SpecDir == InitDir /\ [][NextDir]_vars

(***************************************************************************)
(* Vocabulary of the properties                                            *)
(***************************************************************************)
\* the calls of the cycle in progress and of the remembered cycles
Log(k) == IF k <= Len(prev) THEN prev[k] ELSE calls
Logs == 1..(Len(prev) + 1)
\* a cycle is finished once the loop is back at the delay
Finished(k) == k <= Len(prev) \/ (pc = "sleep" /\ calls # <<>>)

Has(log, op, ok) == \E i \in 1..Len(log) : log[i].op = op /\ log[i].ok = ok
Called(log, op) == \E i \in 1..Len(log) : log[i].op = op
Count(log, op) == Cardinality({i \in 1..Len(log) : log[i].op = op})

\* the string the sensor read last put into the snapshot
LastReading == readings[identifier(sensors[idx - 1])]
ReadDone == lastFile.kind # "none" /\ idx > 1

SensorIds == {identifier(sensors[k]) : k \in 1..Len(sensors)}

\* the text {"temperature":25.0}
Reading25 == <<"{", "\"", "t", "e", "m", "p", "e", "r", "a", "t", "u", "r", "e",
               "\"", ":", "2", "5", ".", "0", "}">>
\* the text {"temperature":null}
ReadingNull == <<"{", "\"", "t", "e", "m", "p", "e", "r", "a", "t", "u", "r", "e",
                 "\"", ":", "n", "u", "l", "l", "}">>

\* reading a decimal text back as a natural number
RECURSIVE DecNat(_)
DecNat(ds) ==
    IF ds = <<>> THEN 0
    ELSE DecNat(SubSeq(ds, 1, Len(ds) - 1)) * 10 + DigitVal(ds[Len(ds)])

\* the thousandths a JSON number with one to three decimals stands for
NumberMilli(t) ==
    LET neg == Head(t) = "-"
        body == IF neg THEN Tail(t) ELSE t
        dot == CHOOSE k \in 1..Len(body) : body[k] = "."
        ip == SubSeq(body, 1, dot - 1)
        fp == SubSeq(body, dot + 1, Len(body))
        scale == IF Len(fp) = 1 THEN 100 ELSE IF Len(fp) = 2 THEN 10 ELSE 1
        m == DecNat(ip) * 1000 + DecNat(fp) * scale
    IN  IF neg THEN -m ELSE m

ReadingHead == <<"{", "\"", "t", "e", "m", "p", "e", "r", "a", "t", "u", "r", "e",
                 "\"", ":">>
\* the number inside a reading string
ReadingNumber(r) == SubSeq(r, Len(ReadingHead) + 1, Len(r) - 1)
IsNumericReading(r) ==
    /\ Len(r) >= Len(ReadingHead) + 4
    /\ SubSeq(r, 1, Len(ReadingHead)) = ReadingHead
    /\ r[Len(r)] = "}"
    /\ LET n == ReadingNumber(r)
           body == IF Head(n) = "-" THEN Tail(n) ELSE n
       IN  /\ Cardinality({k \in 1..Len(body) : body[k] = "."}) = 1
           /\ \A k \in 1..Len(body) : body[k] = "." \/ IsDigit(body[k])
           /\ body[1] # "." /\ body[Len(body)] # "."

HasEquals(line) == \E k \in 1..Len(line) : line[k] = "="
\* what follows the last '=' of a line; the whole line when it has none
Trailing(line) ==
    IF HasEquals(line)
    THEN SubSeq(line, (CHOOSE k \in 1..Len(line) :
                          line[k] = "=" /\ \A j \in (k + 1)..Len(line) : line[j] # "=")
                      + 1, Len(line))
    ELSE line

RECURSIVE StripZeros(_)
StripZeros(ds) ==
    IF Len(ds) > 1 /\ Head(ds) = "0" THEN StripZeros(Tail(ds)) ELSE ds

\* a signed decimal integer that fits 32 bits
IsI32Text(t) ==
    /\ t # <<>>
    /\ LET neg == Head(t) = "-"
           ds == IF Head(t) \in {"+", "-"} THEN Tail(t) ELSE t
           sig == StripZeros(ds)
       IN  /\ ds # <<>>
           /\ \A k \in 1..Len(ds) : IsDigit(ds[k])
           /\ \/ Len(sig) < 10
              \/ /\ Len(sig) = 10
                 /\ LET hi == DecNat(SubSeq(sig, 1, 9))
                        lo == DigitVal(sig[10])
                    IN  hi < 214748364
                          \/ (hi = 214748364 /\ lo <= (IF neg THEN 8 ELSE 7))

(***************************************************************************)
(* Properties                                                              *)
(***************************************************************************)

\* C1: in a cycle where is_connected reported disconnected, every publish
\* of the cycle comes after a reconnect of the cycle, a finished cycle has
\* tried the reconnect, and a cycle whose reconnect failed has no publish.
C1_ReconnectBeforePublish ==
    \A c \in Logs : LET log == Log(c) IN
        \A i \in 1..Len(log) :
            (log[i].op = "is_connected" /\ ~log[i].ok) =>
                /\ \A j \in 1..Len(log) :
                       log[j].op = "publish" =>
                           \E k \in (i + 1)..(j - 1) : log[k].op = "reconnect"
                /\ Finished(c) => Called(log, "reconnect")
                /\ Has(log, "reconnect", FALSE) => ~Called(log, "publish")

C1_Witness ==
    /\ pc = "sleep"
    /\ Len(prev) >= 1
    /\ Has(prev[Len(prev)], "is_connected", FALSE)
    /\ Has(prev[Len(prev)], "reconnect", FALSE)
    /\ Len(calls) >= 3
    /\ calls[Len(calls) - 2] = Call("is_connected", FALSE, <<>>)
    /\ calls[Len(calls) - 1] = Call("reconnect", TRUE, <<>>)
    /\ calls[Len(calls)].op = "publish"

\* C2: a read that met a malformed status file (unreadable, undecodable,
\* empty, one line, no validity marker, no parsable trailing integer) put
\* the sentinel reading into the snapshot and the process is still running.
C2_MalformedYieldsSentinel ==
    (ReadDone /\ lastFile.kind \in MalformedKinds) =>
        /\ LastReading = ReadingNull
        /\ exit = Running
        /\ pc = "poll"

C2_Witness ==
    /\ ReadDone
    /\ lastFile.kind = "bad_value"
    /\ lastFile.line2 = <<"t", "=", "2", "1", "4", "7", "4", "8", "3", "6", "4", "8">>
    /\ LastReading = ReadingNull

\* C3: once in the polling loop the process stays in it and keeps running
\* whatever the reads, reconnects and publishes return, and every state of
\* the loop has a next step.
C3_LoopNeverTerminates ==
    /\ [](InLoop => (exit = Running /\ ENABLED LoopStep))
    /\ [][InLoop => (InLoop' /\ exit' = Running)]_vars

C3_Witness ==
    /\ pc = "sleep"
    /\ exit = Running
    /\ Len(prev) >= 1
    /\ Has(prev[Len(prev)], "reconnect", FALSE)
    /\ Has(calls, "publish", FALSE)
    /\ lastFile.kind = "unreadable"

\* C4: once every sensor has been read in a cycle, the snapshot's keys are
\* exactly the identifiers of the registry, one entry per sensor, whatever
\* the readings are.
SnapshotBuilt ==
    \/ pc \in {"is_connected", "reconnect", "publish"}
    \/ (pc = "poll" /\ idx > Len(sensors))
    \/ (pc = "sleep" /\ calls # <<>>)

C4_SnapshotKeysAreRegistry ==
    SnapshotBuilt =>
        /\ DOMAIN readings = SensorIds
        /\ Cardinality(DOMAIN readings) = Len(sensors)

C4_Witness ==
    /\ pc = "is_connected"
    /\ Len(sensors) = 2
    /\ readings[identifier(sensors[1])] = ReadingNull
    /\ readings[identifier(sensors[2])] = Reading25

\* C5: a read that met a well-formed status file put a numeric reading
\* into the snapshot whose value times 1000 is the file's trailing integer;
\* for 25000 the reading is 25.0.
C5_WellFormedYieldsThousandth ==
    (ReadDone /\ lastFile.kind = "well_formed") =>
        /\ IsNumericReading(LastReading)
        /\ NumberMilli(ReadingNumber(LastReading)) = lastFile.value
        /\ lastFile.value = 25000 => LastReading = Reading25

C5_Witness ==
    /\ ReadDone
    /\ lastFile.kind = "well_formed"
    /\ lastFile.value = 25000
    /\ lastFile.line2 = <<"5", "6", " ", "t", "=", "2", "5", "0", "0", "0">>
    /\ LastReading = Reading25

\* C6: after get_sensors succeeded the registry holds one sensor for each
\* readable entry named with the prefix 28-, identified by the entry's
\* name, and nothing else; a readable directory never makes it fail,
\* whatever entries could not be read.
HasFamilyPrefix(name) ==
    Len(name) >= 3 /\ name[1] = "2" /\ name[2] = "8" /\ name[3] = "-"

MatchingEntries ==
    {k \in 1..Len(devices.entries) :
        devices.entries[k].ok /\ HasFamilyPrefix(devices.entries[k].name)}

C6_RegistryIsMatchingEntries ==
    /\ pc = "sleep" =>
        /\ Len(sensors) = Cardinality(MatchingEntries)
        /\ \A k \in MatchingEntries :
               Cardinality({j \in 1..Len(sensors) :
                   identifier(sensors[j]) = devices.entries[k].name}) = 1
        /\ \A j \in 1..Len(sensors) :
               \E k \in MatchingEntries :
                   identifier(sensors[j]) = devices.entries[k].name
    /\ (devices.readable /\ pc # "get_sensors") => (pc = "sleep" /\ exit = Running)

C6_Witness ==
    /\ pc = "sleep"
    /\ Len(devices.entries) = 3
    /\ \E k \in 1..3 : ~devices.entries[k].ok
    /\ \E k \in 1..3 : devices.entries[k] = Entry(TRUE, <<"1", "0", "-", "0", "1">>)
    /\ sensors = <<DS18B20Sensor(<<"2", "8", "-", "0", "1">>)>>

\* C7 as it was claimed: a numeric reading only if the second line of the
\* status file contains a '=' followed by a signed integer; a second line
\* without '=' gives the sentinel reading.
C7_NumericOnlyWithEquals ==
    (ReadDone /\ lastFile.kind \in {"well_formed", "bad_value", "no_marker"}) =>
        /\ LastReading # ReadingNull =>
               (HasEquals(lastFile.line2) /\ IsI32Text(Trailing(lastFile.line2)))
        /\ ~HasEquals(lastFile.line2) => LastReading = ReadingNull

\* C7: a numeric reading only if the text after the last '=' of the second
\* line, or the whole second line when it has no '=', is a signed 32-bit
\* integer; a second line without '=' gives the sentinel reading unless
\* the whole line is such an integer.
C7_NumericOnlyIfTrailingInteger ==
    (ReadDone /\ lastFile.kind \in {"well_formed", "bad_value", "no_marker"}) =>
        /\ LastReading # ReadingNull => IsI32Text(Trailing(lastFile.line2))
        /\ (~HasEquals(lastFile.line2) /\ ~IsI32Text(lastFile.line2)) =>
               LastReading = ReadingNull

C7_Witness ==
    /\ ReadDone
    /\ lastFile.line1 = <<"c", "r", "c", "=", "5", "6", " ", "Y", "E", "S">>
    /\ lastFile.line2 = <<"2", "3", "0", "0", "0">>
    /\ LastReading = <<"{", "\"", "t", "e", "m", "p", "e", "r", "a", "t", "u", "r", "e",
                       "\"", ":", "2", "3", ".", "0", "}">>

\* C8: after two cycles in a row that met a disconnected broker and a
\* failed reconnect, neither of the two has published, the loop is running,
\* and the cycle that follows sleeps the same delay, makes its own
\* connection check, reconnects only on its own check, and publishes
\* exactly when its own check or its own reconnect succeeded.
Skipped(log) == Has(log, "is_connected", FALSE) /\ Has(log, "reconnect", FALSE)

TwoSkipped ==
    /\ Len(prev) >= 2
    /\ Skipped(prev[Len(prev) - 1])
    /\ Skipped(prev[Len(prev)])

C8_ThirdCycleIndependent ==
    TwoSkipped =>
        /\ ~Called(prev[Len(prev) - 1], "publish")
        /\ ~Called(prev[Len(prev)], "publish")
        /\ InLoop /\ exit = Running
        /\ calls[1] = prev[Len(prev)][1]
        /\ calls[1] = Call("sleep", TRUE, <<wait_time>>)
        /\ pc = "is_connected" => ENABLED IsConnected
        /\ pc = "reconnect" =>
               (calls[Len(calls)] = Call("is_connected", FALSE, <<>>) /\ ENABLED Reconnect)
        /\ pc = "publish" =>
               \/ calls[Len(calls)] = Call("is_connected", TRUE, <<>>)
               \/ calls[Len(calls)] = Call("reconnect", TRUE, <<>>)
        /\ Called(calls, "reconnect") => Has(calls, "is_connected", FALSE)
        /\ Count(calls, "is_connected") <= 1 /\ Count(calls, "reconnect") <= 1
        /\ pc = "sleep" =>
               (Called(calls, "publish") <=>
                   (Has(calls, "is_connected", TRUE) \/ Has(calls, "reconnect", TRUE)))

C8_Witness ==
    /\ TwoSkipped
    /\ pc = "sleep"
    /\ Has(calls, "is_connected", FALSE)
    /\ Has(calls, "reconnect", TRUE)
    /\ Has(calls, "publish", TRUE)

\* C9: a finished cycle whose connection check, or whose reconnect,
\* succeeded has called publish exactly once, with the topic and the QoS of
\* the configuration; a failed publish is the cycle's last call and leaves
\* the loop running; every cycle sleeps the one delay, which no step of
\* the loop changes.
ConfiguredTopic == environ["MQTT_TOPIC"].text
ConfiguredQos == DecNat(environ["MQTT_QOS"].text)

C9_Cycles ==
    \A c \in Logs : LET log == Log(c) IN
        /\ (Finished(c) /\ (Has(log, "is_connected", TRUE) \/ Has(log, "reconnect", TRUE))) =>
               Count(log, "publish") = 1
        /\ Count(log, "publish") <= 1
        /\ \A i \in 1..Len(log) :
               log[i].op = "publish" =>
                   /\ log[i].arg = <<ConfiguredTopic, <<ConfiguredQos>>>>
                   /\ (Has(log, "is_connected", TRUE) \/ Has(log, "reconnect", TRUE))
                   /\ i = Len(log)
        /\ Has(log, "publish", FALSE) => (InLoop /\ exit = Running)
        /\ log # <<>> => log[1] = Call("sleep", TRUE, <<wait_time>>)

C9_PublishOncePerCycle ==
    /\ []C9_Cycles
    /\ [][InLoop => wait_time' = wait_time]_vars

C9_Witness ==
    /\ pc = "poll"
    /\ Len(prev) >= 2
    /\ Has(prev[Len(prev) - 1], "publish", FALSE)
    /\ Has(prev[Len(prev)], "is_connected", FALSE)
    /\ Has(prev[Len(prev)], "publish", TRUE)
    /\ prev[Len(prev)][Len(prev[Len(prev)])].arg = <<ConfiguredTopic, <<2>>>>

\* C10: a missing required configuration value, a failed initial connect
\* and an unreadable sensor directory each end the process with a non-zero
\* status; a process that ended has never entered the loop and has tried
\* no startup step twice; the loop is entered only after configuration,
\* connect and enumeration have all succeeded.
RequiredVars == {"HOSTNAME", "MQTT_USER", "MQTT_PASSWORD", "MQTT_HOST",
                 "MQTT_TOPIC", "CA_CERT"}

NeverLooped == calls = <<>> /\ prev = <<>> /\ ~InLoop

C10_StartupFailuresAreFatal ==
    /\ ((\E n \in RequiredVars : ~environ[n].set) /\ pc # "get_client") =>
           (exit.exited /\ ~Called(boot, "connect"))
    /\ Has(boot, "connect", FALSE) => exit.exited
    /\ (~devices.readable /\ Called(boot, "get_sensors")) => exit.exited
    /\ exit.exited =>
           /\ exit.code # 0
           /\ pc = "exited"
           /\ NeverLooped
           /\ ~boot[Len(boot)].ok
    /\ \A op \in {"config", "connect", "wait_time", "get_sensors"} : Count(boot, op) <= 1
    /\ Cardinality({i \in 1..Len(boot) : ~boot[i].ok}) <= 1
    /\ InLoop =>
           /\ Has(boot, "config", TRUE) /\ config.loaded
           /\ Has(boot, "connect", TRUE)
           /\ Has(boot, "get_sensors", TRUE) /\ devices.readable
           /\ exit = Running

C10_Witness ==
    /\ pc = "exited"
    /\ exit = Failed
    /\ ~devices.readable
    /\ boot[Len(boot)] = Call("get_sensors", FALSE, <<>>)
    /\ Has(boot, "connect", TRUE)
    /\ NeverLooped

\* C11: with every sleep, read and broker call returning, from every state
\* of the loop, whether the last cycle published, failed to publish or was
\* skipped, the loop again reaches the point where it has slept and read
\* every sensor of the registry.
AllSensorsRead ==
    /\ pc = "poll"
    /\ idx > Len(sensors)
    /\ calls[1].op = "sleep"
    /\ \A k \in 1..Len(sensors) : calls[k + 1] = Call("read", TRUE, identifier(sensors[k]))

CycleOver == pc = "sleep" /\ calls # <<>>

C11_CadenceSurvives ==
    /\ InLoop ~> AllSensorsRead
    /\ CycleOver ~> (pc = "poll" /\ idx = 1)

C11_Witness ==
    /\ AllSensorsRead
    /\ Len(sensors) = 2
    /\ Len(prev) >= 2
    /\ Has(prev[Len(prev) - 1], "reconnect", FALSE)
    /\ Has(prev[Len(prev)], "publish", FALSE)

\* C12 as it was claimed: without MQTT_READ_INTERVAL in the environment
\* (everything else set) the configuration loads and the loop sleeps 10
\* seconds; with a parsable value the loop sleeps that value.
OnlyIntervalUnset ==
    /\ ~environ["MQTT_READ_INTERVAL"].set
    /\ \A n \in NeededVars \ {"MQTT_READ_INTERVAL"} : environ[n].set

C12_IntervalDefaultsToTen ==
    /\ (OnlyIntervalUnset /\ pc # "get_client") =>
           /\ ~Has(boot, "config", FALSE)
           /\ Has(boot, "connect", TRUE) => (exit = Running /\ config.loaded)
           /\ InLoop => wait_time = 10000
    /\ (InLoop /\ environ["MQTT_READ_INTERVAL"] = Val(<<"2", ".", "5">>)) =>
           wait_time = 2500
    /\ (InLoop /\ environ["MQTT_READ_INTERVAL"] = Val(<<"1", "0">>)) =>
           wait_time = 10000

\* Reading a JSON text back: its tokens are the strings, unescaped, and
\* the single characters between them.
RECURSIVE StringEnd(_, _)
StringEnd(s, k) ==
    IF k > Len(s) THEN 0
    ELSE IF s[k] = "\\" THEN StringEnd(s, k + 2)
    ELSE IF s[k] = "\"" THEN k
    ELSE StringEnd(s, k + 1)

RECURSIVE Unescape(_)
Unescape(s) ==
    IF s = <<>> THEN <<>>
    ELSE IF Head(s) = "\\" /\ Len(s) >= 2
         THEN <<s[2]>> \o Unescape(SubSeq(s, 3, Len(s)))
    ELSE <<Head(s)>> \o Unescape(Tail(s))

Token(str, text) == [str |-> str, text |-> text]

RECURSIVE JsonTokens(_)
JsonTokens(s) ==
    IF s = <<>> THEN <<>>
    ELSE IF Head(s) = "\"" /\ StringEnd(s, 2) # 0
         THEN LET e == StringEnd(s, 2) IN
              <<Token(TRUE, Unescape(SubSeq(s, 2, e - 1)))>>
                  \o JsonTokens(SubSeq(s, e + 1, Len(s)))
    ELSE <<Token(FALSE, <<Head(s)>>)>> \o JsonTokens(Tail(s))

Punct(c) == Token(FALSE, <<c>>)

\* the tokens of an object all of whose keys and values are strings
IsObjectOfStrings(t) ==
    /\ Len(t) >= 2
    /\ t[1] = Punct("{") /\ t[Len(t)] = Punct("}")
    /\ \/ Len(t) = 2
       \/ /\ (Len(t) - 1) % 4 = 0
          /\ \A i \in 1..((Len(t) - 1) \div 4) :
                 /\ t[4 * i - 2].str
                 /\ t[4 * i - 1] = Punct(":")
                 /\ t[4 * i].str
                 /\ i < (Len(t) - 1) \div 4 => t[4 * i + 1] = Punct(",")

EntryCount(t) == (Len(t) - 1) \div 4
EntriesOf(t) == {<<t[4 * i - 2].text, t[4 * i].text>> : i \in 1..EntryCount(t)}

\* the text {"28-0000001":"{\"temperature\":23.0}"}
ScenarioPayload ==
    <<"{", "\"", "2", "8", "-", "0", "0", "0", "0", "0", "0", "1", "\"", ":",
      "\"", "{", "\\", "\"", "t", "e", "m", "p", "e", "r", "a", "t", "u", "r", "e",
      "\\", "\"", ":", "2", "3", ".", "0", "}", "\"", "}">>

\* C13: a payload handed to publish reads back as a JSON object with one
\* string-valued entry per sensor, keyed by the sensor's identifier, each
\* value being the sensor's reading string: {"temperature":<number>} or
\* {"temperature":null}; with the single sensor 28-0000001 and the status
\* file of the scenario the payload is {"28-0000001":"{\"temperature\":23.0}"}.
C13_PayloadIsDoubleEncoded ==
    published # NoPayload =>
        LET t == JsonTokens(published) IN
        /\ IsObjectOfStrings(t)
        /\ EntryCount(t) = Len(sensors)
        /\ EntriesOf(t) = {<<id, readings[id]>> : id \in SensorIds}
        /\ \A e \in EntriesOf(t) : e[2] = ReadingNull \/ IsNumericReading(e[2])
        /\ (sensors = <<DS18B20Sensor(ScenarioId)>> /\ lastFile = ScenarioFile) =>
               published = ScenarioPayload

C13_Witness ==
    /\ pc = "sleep"
    /\ sensors = <<DS18B20Sensor(ScenarioId)>>
    /\ lastFile = ScenarioFile
    /\ Has(calls, "publish", TRUE)
    /\ published = ScenarioPayload

\* C14: the calls of a cycle come in the order delay, one read per sensor
\* of the registry, connection check, reconnect (only after a check that
\* reported disconnected), publish; the loop is at the connection check,
\* the reconnect or the publish only after the delay and all the reads of
\* the same cycle, the first cycle included; and the loop only moves
\* delay -> reads -> check -> reconnect or publish -> delay.
ReadsDone(log) ==
    /\ Len(log) >= Len(sensors) + 1
    /\ log[1] = Call("sleep", TRUE, <<wait_time>>)
    /\ \A k \in 1..Len(sensors) : log[k + 1] = Call("read", TRUE, identifier(sensors[k]))

InOrder(log) ==
    \A i \in 1..Len(log) :
        /\ log[i].op = "sleep" => i = 1
        /\ log[i].op = "read" => (1 < i /\ i <= Len(sensors) + 1)
        /\ log[i].op = "is_connected" => (i = Len(sensors) + 2 /\ ReadsDone(log))
        /\ log[i].op = "reconnect" =>
               (i = Len(sensors) + 3 /\ log[i - 1] = Call("is_connected", FALSE, <<>>))
        /\ log[i].op = "publish" =>
               /\ i > Len(sensors) + 2
               /\ ReadsDone(log)
               /\ \/ log[i - 1] = Call("is_connected", TRUE, <<>>)
                  \/ log[i - 1] = Call("reconnect", TRUE, <<>>)

C14_CycleOrder ==
    /\ [](\A c \in Logs : InOrder(Log(c)))
    /\ [](pc \in {"is_connected", "reconnect", "publish"} => ReadsDone(calls))
    /\ [](pc = "reconnect" => calls[Len(calls)] = Call("is_connected", FALSE, <<>>))
    /\ [][/\ pc = "get_sensors" => pc' \in {"sleep", "exited"}
          /\ pc = "sleep" => pc' = "poll"
          /\ pc = "poll" => pc' \in {"poll", "is_connected"}
          /\ pc = "is_connected" => pc' \in {"reconnect", "publish"}
          /\ pc = "reconnect" => pc' \in {"publish", "sleep"}
          /\ pc = "publish" => pc' = "sleep"]_vars

C14_Witness ==
    /\ pc = "publish"
    /\ prev = <<>>
    /\ Len(sensors) = 2
    /\ Len(calls) = 5
    /\ calls[4] = Call("is_connected", FALSE, <<>>)
    /\ calls[5] = Call("reconnect", TRUE, <<>>)

\* C15: a cycle calls reconnect at most once, and only right after its
\* connection check reported disconnected; a failed reconnect is the last
\* call of its cycle and the loop goes from it straight to the delay.
C15_Cycles ==
    \A c \in Logs : LET log == Log(c) IN
        /\ Count(log, "reconnect") <= 1
        /\ \A i \in 1..Len(log) :
               log[i].op = "reconnect" =>
                   /\ i > 1 /\ log[i - 1] = Call("is_connected", FALSE, <<>>)
                   /\ ~log[i].ok => i = Len(log)
        /\ Has(log, "is_connected", TRUE) => ~Called(log, "reconnect")

C15_ReconnectOncePerCycle ==
    /\ []C15_Cycles
    /\ [][(pc = "reconnect" /\ Has(calls', "reconnect", FALSE)) =>
              (pc' = "sleep" /\ Len(calls') = Len(calls) + 1)]_vars
    /\ []((pc = "sleep" /\ Has(calls, "reconnect", FALSE)) => ENABLED Sleep)

C15_Witness ==
    /\ pc = "reconnect"
    /\ Len(prev) >= 1
    /\ prev[Len(prev)][Len(prev[Len(prev)])] = Call("reconnect", FALSE, <<>>)
    /\ calls[1].op = "sleep"
    /\ calls[Len(calls)] = Call("is_connected", FALSE, <<>>)

\* C16: the snapshot starts empty in every cycle and holds exactly what
\* the reads of the cycle in progress put into it; the message, and the
\* payload handed to publish, encode exactly that snapshot; the message is
\* gone once the cycle is over, published or not, so nothing built in one
\* cycle is left for a later one.
ReadIds(log) == {log[i].arg : i \in {j \in 1..Len(log) : log[j].op = "read"}}

EncodesSnapshot(payload) ==
    LET t == JsonTokens(payload) IN
    /\ IsObjectOfStrings(t)
    /\ EntriesOf(t) = {<<id, readings[id]>> : id \in DOMAIN readings}
    /\ EntryCount(t) = Cardinality(DOMAIN readings)

C16_State ==
    /\ (pc = "poll" /\ idx = 1) => readings = EmptyMap
    /\ InLoop => DOMAIN readings = ReadIds(calls)
    /\ (ReadDone /\ pc = "poll") => LastReading = read_to_string(lastFile)
    /\ pc \in {"is_connected", "reconnect", "publish"} => EncodesSnapshot(message.payload)
    /\ pc \notin {"is_connected", "reconnect", "publish"} => message = NoMessage
    /\ published # NoPayload =>
           (pc = "sleep" /\ Called(calls, "publish") /\ EncodesSnapshot(published))
    /\ (pc = "sleep" /\ ~Called(calls, "publish")) => published = NoPayload

C16_SnapshotIsFresh ==
    /\ []C16_State
    /\ [][pc = "sleep" =>
              (readings' = EmptyMap /\ message' = NoMessage /\ published' = NoPayload)]_vars

C16_Witness ==
    /\ pc = "sleep"
    /\ Len(prev) >= 2
    /\ Has(prev[Len(prev) - 1], "reconnect", FALSE)
    /\ Has(prev[Len(prev)], "publish", FALSE)
    /\ Has(calls, "publish", TRUE)
    /\ Len(sensors) = 2
    /\ EncodesSnapshot(published)

\* C17: the directory is enumerated once, before the loop; no step of the
\* loop, and no change of the directory on the host, changes the registry;
\* every cycle reads, and every payload names, exactly the sensors of the
\* registry.
C17_RegistryIsFrozen ==
    /\ [][InLoop => sensors' = sensors]_vars
    /\ [](Count(boot, "get_sensors") <= 1)
    /\ [](InLoop => boot[Len(boot)] = Call("get_sensors", TRUE, <<>>))
    /\ [](\A c \in Logs : Finished(c) => (ReadsDone(Log(c)) /\ ReadIds(Log(c)) = SensorIds))
    /\ [](published # NoPayload =>
             {e[1] : e \in EntriesOf(JsonTokens(published))} = SensorIds)

C17_Witness ==
    /\ pc = "sleep"
    /\ Len(sensors) = 2
    /\ devices.readable /\ devices.entries = <<>>
    /\ Len(prev) >= 1
    /\ ReadIds(calls) = SensorIds
    /\ Has(calls, "publish", TRUE)
    /\ Cardinality(EntriesOf(JsonTokens(published))) = 2

\* C18: the device directory is read only after get_client has loaded the
\* configuration and connected: every attempt of get_sensors comes after
\* a successful connect, which comes right after the configuration load;
\* without a successful connect there is no registry; a process ended by
\* an unreadable directory had its connection established.
C18_ConnectBeforeEnumerate ==
    /\ \A i \in 1..Len(boot) :
           /\ boot[i].op = "get_sensors" =>
                  \E j \in 1..(i - 1) : boot[j] = Call("connect", TRUE, <<>>)
           /\ boot[i].op = "connect" => (i = 2 /\ boot[1] = Call("config", TRUE, <<>>))
    /\ pc = "get_client" => (~config.loaded /\ boot = <<>>)
    /\ pc \in {"wait_time", "get_sensors"} => Has(boot, "connect", TRUE)
    /\ ~Has(boot, "connect", TRUE) => (sensors = <<>> /\ ~InLoop)
    /\ (exit.exited /\ Has(boot, "connect", TRUE)) => boot[Len(boot)].op # "connect"

C18_Witness ==
    /\ pc = "exited"
    /\ exit.code = 1
    /\ boot = <<Call("config", TRUE, <<>>), Call("connect", TRUE, <<>>),
                Call("wait_time", TRUE, <<>>), Call("get_sensors", FALSE, <<>>)>>
    /\ sensors = <<>>

====
